---- MODULE Spec2Model ----
(***************************************************************************)
(* MockBuilder (beacon_node/execution_layer/src/test_utils/mock_builder.rs) *)
(* as a state machine: the validator registration cache, the queue of      *)
(* test-injected operations, the execution layer's proposer and payload    *)
(* caches, and the three Builder handlers plus add_operation.              *)
(***************************************************************************)
EXTENDS Integers, Sequences, FiniteSets, TLC

VARIABLES
    val_registration_cache, \* HashMap<BlsPublicKey, SignedValidatorRegistration>
    operations,             \* Vec<Operation>
    el_proposers,           \* execution layer: (slot, head root) -> proposer
    el_payloads,            \* execution layer: payloads cached by get_full_payload_caching
    registrations,          \* the slice a register_validator call is handed
    ret,                    \* what the last call returned and which collaborators it called
    tasks,                  \* concurrent calls: what each is handed and how far it has got
    answers                 \* what the collaborators will answer the next fetch_best_bid call

vars == <<val_registration_cache, operations, el_proposers, el_payloads,
          registrations, ret, tasks, answers>>

----------------------------------------------------------------------------
(* Bounds *)

MaxBatch == 3

MaxOps == 2

MaxConcBatch == 2

----------------------------------------------------------------------------
(* Values *)

Keys == {"k1", "k2", "k3"}

\* secret keys: one per validator, the builder's, and a stranger's
SecretKeys == {"sk_k1", "sk_k2", "sk_k3", "sk_builder", "sk_x"}

public_key(sk) ==
    CASE sk = "sk_k1" -> "k1"
      [] sk = "sk_k2" -> "k2"
      [] sk = "sk_k3" -> "k3"
      [] sk = "sk_builder" -> "kb"
      [] OTHER -> "kx"

SkOf(k) == CHOOSE sk \in SecretKeys : public_key(sk) = k

builder_sk == "sk_builder"

context == "ctx"

OtherContext == "ctx_other"

\* Result: Ok(v), or Err(e) with e the text of Error::Custom and what it names
Ok == [ok |-> TRUE]

OkV(v) == [ok |-> TRUE, v |-> v]

Err(e) == [ok |-> FALSE, err |-> e]

\* The signature of msg: the signer's public key, the signing root of the
\* message (one root per message) and the domain of the context.
sign_builder_message(msg, sk, ctx) ==
    [signer |-> public_key(sk), root |-> msg, domain |-> ctx]

verify_signed_builder_message(msg, sig, pk, ctx) ==
    sig = [signer |-> pk, root |-> msg, domain |-> ctx]

----------------------------------------------------------------------------
(* Registrations *)

\* the (fee_recipient, gas_limit) preferences a validator may declare
RegPrefs == {<<"a1", 30>>, <<"a2", 31>>}

RegMessage(k, p) ==
    [public_key |-> k, fee_recipient |-> p[1], gas_limit |-> p[2], timestamp |-> 1]

ValidRegistration(k, p) ==
    [message |-> RegMessage(k, p),
     signature |-> sign_builder_message(RegMessage(k, p), SkOf(k), context)]

\* one registration per key that fails verification: signed by a stranger,
\* signed over another message, signed under another domain
InvalidRegistration(k) ==
    LET m == RegMessage(k, <<"a1", 30>>)
    IN  [message |-> m,
         signature |->
            CASE k = "k1" -> sign_builder_message(m, "sk_x", context)
              [] k = "k2" -> sign_builder_message(RegMessage(k, <<"a2", 31>>), SkOf(k), context)
              [] OTHER -> sign_builder_message(m, SkOf(k), OtherContext)]

SignedRegistrations ==
    {ValidRegistration(k, p) : k \in Keys, p \in RegPrefs}
        \cup {InvalidRegistration(k) : k \in Keys}

\* HashMap::insert
CacheInsertIfAbsent(cache, key, registration) ==
    IF key \in DOMAIN cache THEN cache
    ELSE [k \in DOMAIN cache \cup {key} |-> IF k = key THEN registration ELSE cache[k]]

CacheInsertAlone(cache, key, registration) ==
    [k \in {key} |-> registration]

CacheInsert(cache, key, registration) ==
    [k \in DOMAIN cache \cup {key} |-> IF k = key THEN registration ELSE cache[k]]

\* the loop of register_validator from entry i on: verify, then insert; the
\* first failure returns at once
RECURSIVE register_loop_skip(_, _, _)
register_loop_skip(cache, regs, i) ==
    IF i > Len(regs) THEN [cache |-> cache, result |-> Ok]
    ELSE LET registration == regs[i]
             pubkey == registration.message.public_key
         IN  IF ~verify_signed_builder_message(registration.message,
                    registration.signature, pubkey, context)
             THEN [cache |-> register_loop_skip(cache, regs, i + 1).cache,
                   result |-> Err(<<"invalid signature">>)]
             ELSE register_loop_skip(
                    CacheInsert(cache, registration.message.public_key, registration),
                    regs, i + 1)

RECURSIVE register_loop_insert_first(_, _, _)
register_loop_insert_first(cache, regs, i) ==
    IF i > Len(regs) THEN [cache |-> cache, result |-> Ok]
    ELSE LET registration == regs[i]
             pubkey == registration.message.public_key
             inserted == CacheInsert(cache, registration.message.public_key, registration)
         IN  IF ~verify_signed_builder_message(registration.message,
                    registration.signature, pubkey, context)
             THEN [cache |-> inserted, result |-> Err(<<"invalid signature">>)]
             ELSE register_loop_insert_first(inserted, regs, i + 1)

RECURSIVE register_loop(_, _, _)
register_loop(cache, regs, i) ==
    IF i > Len(regs) THEN [cache |-> cache, result |-> Ok]
    ELSE LET registration == regs[i]
             pubkey == registration.message.public_key
         IN  IF ~verify_signed_builder_message(registration.message,
                    registration.signature, pubkey, context)
             THEN [cache |-> cache, result |-> Err(<<"invalid signature">>)]
             ELSE register_loop(
                    CacheInsert(cache, registration.message.public_key, registration),
                    regs, i + 1)

register_validator(cache, regs) == register_loop(cache, regs, 1)

----------------------------------------------------------------------------
(* The codec bridge *)

\* the encodings the ssz_rs decoder turns down
SszRsRejected == {<<"ssz", "ax">>}

as_ssz_bytes(v) == <<"ssz", v>>

ssz_rs_serialize(v) == <<"ssz", v>>

\* to_ssz_rs: encode with the ssz codec, decode with ssz_rs
to_ssz_rs(v) ==
    LET bytes == as_ssz_bytes(v)
    IN  IF bytes \in SszRsRejected THEN Err(<<"to_ssz_rs", "DeserializeError">>)
        ELSE OkV(bytes[2])

from_ssz_rs_raw(v) ==
    LET bytes == ssz_rs_serialize(v)
    IN  IF bytes[1] # "ssz" THEN Err(<<"from_ssz_rs", "DecodeError">>)
        ELSE OkV(bytes)

\* from_ssz_rs: encode with ssz_rs, decode with the ssz codec
from_ssz_rs(v) ==
    LET bytes == ssz_rs_serialize(v)
    IN  IF bytes[1] # "ssz" THEN Err(<<"from_ssz_rs", "DecodeError">>)
        ELSE OkV(bytes[2])

----------------------------------------------------------------------------
(* Operations *)

FeeRecipient(a) == [kind |-> "FeeRecipient", addr |-> a, n |-> 0, val |-> "-"]

GasLimit(g) == [kind |-> "GasLimit", addr |-> "-", n |-> g, val |-> "-"]

Value(v) == [kind |-> "Value", addr |-> "-", n |-> 0, val |-> v]

\* Uint256::from(usize), on the amounts "v0", "v7"
Uint256_from(v) == v

\* the operations a test may queue; the address "ax" is one whose conversion fails
Operations ==
    {FeeRecipient("a3"), FeeRecipient("ax"), GasLimit(40), GasLimit(41), Value("v7")}

\* Operation::apply: the bid after the operation, or the error of the conversion
Operation_apply(op, bid) ==
    CASE op.kind = "FeeRecipient" ->
            LET r == to_ssz_rs(op.addr)
            IN  IF r.ok THEN OkV([bid EXCEPT !.header.fee_recipient = r.v]) ELSE r
      [] op.kind = "GasLimit" -> OkV([bid EXCEPT !.header.gas_limit = op.n])
      [] OTHER ->
            LET r == to_ssz_rs(Uint256_from(op.val))
            IN  IF r.ok THEN OkV([bid EXCEPT !.value = r.v]) ELSE r

\* the loop of apply_operations: pop from the tail and apply, until the queue is
\* empty or an application fails.  What is left of the queue, the bid, the
\* operations applied in the order of their application, and the result.
RECURSIVE apply_loop_fifo(_, _, _)
apply_loop_fifo(guard, bid, applied) ==
    IF guard = <<>>
    THEN [operations |-> <<>>, bid |-> bid, applied |-> applied, result |-> Ok]
    ELSE LET op == Head(guard)
             r == Operation_apply(op, bid)
         IN  IF ~r.ok
             THEN [operations |-> Tail(guard), bid |-> bid, applied |-> applied,
                   result |-> r]
             ELSE apply_loop_fifo(Tail(guard), r.v, Append(applied, op))

RECURSIVE apply_loop_drain(_, _, _)
apply_loop_drain(guard, bid, applied) ==
    IF guard = <<>>
    THEN [operations |-> <<>>, bid |-> bid, applied |-> applied, result |-> Ok]
    ELSE LET op == guard[Len(guard)]
             r == Operation_apply(op, bid)
         IN  IF ~r.ok
             THEN [operations |-> <<>>, bid |-> bid, applied |-> applied, result |-> r]
             ELSE apply_loop_drain(SubSeq(guard, 1, Len(guard) - 1), r.v,
                                   Append(applied, op))

apply_loop_peek(guard, bid, applied) ==
    [apply_loop_drain(guard, bid, applied) EXCEPT !.operations = guard]

RECURSIVE apply_loop(_, _, _)
apply_loop(guard, bid, applied) ==
    IF guard = <<>>
    THEN [operations |-> <<>>, bid |-> bid, applied |-> applied, result |-> Ok]
    ELSE LET op == guard[Len(guard)]
             popped == SubSeq(guard, 1, Len(guard) - 1)
             r == Operation_apply(op, bid)
         IN  IF ~r.ok
             THEN [operations |-> popped, bid |-> bid, applied |-> applied,
                   result |-> r]
             ELSE apply_loop(popped, r.v, Append(applied, op))

apply_operations(ops, bid) == apply_loop(ops, bid, <<>>)

----------------------------------------------------------------------------
(* Collaborators: the beacon node's answers and the execution layer *)

Hashes == {"h1", "h2"}

Slots == {2}

genesis_slot == 1

seconds_per_slot == 3

U64 == 2 ^ 6

u64_sub(a, b) == (a - b) % U64

u64_mul(a, b) == (a * b) % U64

u64_add(a, b) == (a + b) % U64

\* what the beacon node and the execution layer may answer when asked
Answer(k) == [kind |-> k]

HeadAnswers ==
    {[kind |-> "ok", root |-> "r1", block_hash |-> "h1"],
     Answer("error"), Answer("none"), Answer("premerge")}

FinalizedAnswers ==
    {[kind |-> "ok", root |-> "r0", block_hash |-> "hf"],
     Answer("error"), Answer("none"), Answer("premerge")}

ValidatorAnswers == {Answer("ok"), Answer("error"), Answer("none")}

GenesisTime == 5

GenesisAnswers == {[kind |-> "ok", genesis_time |-> GenesisTime], Answer("error")}

StateAnswers ==
    {[kind |-> "ok", randao_mix |-> "mix"], Answer("error"), Answer("none"),
     Answer("no mix")}

PayloadAnswers == {Answer("ok"), Answer("error")}

\* the index the head state gives a public key
ValidatorIndex(k) == IF k = "k1" THEN 1 ELSE IF k = "k2" THEN 2 ELSE 3

\* the gas limit of the payloads the execution layer builds
ElGasLimit == 50

\* ExecutionLayer::insert_proposer
ElInsertProposer(proposers, slot, head_block_root, val_index, payload_attributes) ==
    [k \in DOMAIN proposers \cup {<<slot, head_block_root>>} |->
        IF k = <<slot, head_block_root>>
        THEN [validator_index |-> val_index, payload_attributes |-> payload_attributes]
        ELSE proposers[k]]

\* the payload get_full_payload_caching builds and caches
ElBuildPayload(parent_hash, timestamp, prev_randao, fee_recipient) ==
    [parent_hash |-> parent_hash, fee_recipient |-> fee_recipient,
     prev_randao |-> prev_randao, gas_limit |-> ElGasLimit,
     timestamp |-> timestamp, transactions |-> "txs"]

to_execution_payload_header(payload) ==
    [parent_hash |-> payload.parent_hash, fee_recipient |-> payload.fee_recipient,
     prev_randao |-> payload.prev_randao, gas_limit |-> payload.gas_limit,
     timestamp |-> payload.timestamp,
     transactions_root |-> <<"root", payload.transactions>>]

\* the tree hash root: one root per value
hash_tree_root(v) == <<"root", v>>

\* ExecutionLayer::get_payload_by_root: the cached payloads with that root
ElPayloadsByRoot(payloads, root) ==
    {p \in payloads : hash_tree_root(to_execution_payload_header(p)) = root}

\* serde_json::to_string: every field by name, its value as JSON text
json_to_string(v) == [f \in DOMAIN v |-> <<"json", v[f]>>]

HeaderFields ==
    {"parent_hash", "fee_recipient", "prev_randao", "gas_limit", "timestamp",
     "transactions_root"}

PayloadFields ==
    {"parent_hash", "fee_recipient", "prev_randao", "gas_limit", "timestamp",
     "transactions"}

\* serde_json::from_str: the fields of the target type, each parsed from its
\* text; a field the text lacks is an error
json_from_str(json, fields) ==
    IF ~(fields \subseteq DOMAIN json) THEN Err(<<"json", "missing field">>)
    ELSE IF \E f \in fields : json[f][1] # "json" THEN Err(<<"json", "invalid value">>)
    ELSE OkV([f \in fields |-> json[f][2]])

\* serde_json::from_str into ServerPayloadHeader
json_from_str_header(json) == json_from_str(json, HeaderFields)

\* serde_json::from_str into ServerPayload
json_from_str_payload(json) == json_from_str(json, PayloadFields)

----------------------------------------------------------------------------
(* fetch_best_bid, statement by statement.  A call's locals are a record c;  *)
(* c.err is the error it has returned with (<<>>: none yet), and a statement *)
(* after the return does nothing.                                            *)

Start(req, cache, ops, proposers, payloads) ==
    [req |-> req, err |-> <<>>, calls |-> <<>>,
     val_registration_cache |-> cache, operations |-> ops, ops0 |-> ops,
     el_proposers |-> proposers, el_payloads |-> payloads,
     cached_data |-> <<>>, head_block_root |-> "-", head_execution_hash |-> "-",
     finalized_execution_hash |-> "-", val_index |-> 0, fee_recipient |-> "-",
     slots_since_genesis |-> 0, timestamp |-> 0, prev_randao |-> "-",
     payload_attributes |-> <<>>, header |-> <<>>, message |-> <<>>,
     applied |-> <<>>, signature |-> <<>>, overflow_checks |-> FALSE]

\* the build of the binary: with overflow checks (debug) an integer operation
\* that overflows panics, without (release) it wraps
Build(c, overflow_checks) == [c EXCEPT !.overflow_checks = overflow_checks]

Failed(c) == c.err # <<>>

Fail(c, e) == [c EXCEPT !.err = e]

\* the task of the call panics: the call does not return, and nothing after
\* the panic runs
Panic(c, message) == Fail(c, <<"panic", message>>)

Called(c, fn, args) == [c EXCEPT !.calls = Append(@, [fn |-> fn, args |-> args])]

step_signed_cached_data_or_default(c) ==
    IF Failed(c) THEN c
    ELSE IF c.req.public_key \notin DOMAIN c.val_registration_cache
         THEN [c EXCEPT !.cached_data =
                    [public_key |-> "k0", fee_recipient |-> "a0", gas_limit |-> 0,
                     timestamp |-> 0]]
         ELSE [c EXCEPT !.cached_data = c.val_registration_cache[c.req.public_key].message]

step_signed_cached_data_take(c) ==
    IF Failed(c) THEN c
    ELSE IF c.req.public_key \notin DOMAIN c.val_registration_cache
         THEN Fail(c, <<"missing registration">>)
         ELSE [c EXCEPT !.cached_data = c.val_registration_cache[c.req.public_key].message,
                        !.val_registration_cache =
                            [k \in DOMAIN c.val_registration_cache \ {c.req.public_key} |->
                                c.val_registration_cache[k]]]

\* lines 183-189
step_signed_cached_data(c) ==
    IF Failed(c) THEN c
    ELSE IF c.req.public_key \notin DOMAIN c.val_registration_cache
         THEN Fail(c, <<"missing registration">>)
         ELSE [c EXCEPT !.cached_data = c.val_registration_cache[c.req.public_key].message]

\* lines 191-200
step_head(c, answer) ==
    IF Failed(c) THEN c
    ELSE LET c1 == Called(c, "get_beacon_blocks", <<"Head">>)
         IN  CASE answer.kind = "error" -> Fail(c1, <<"http error">>)
               [] answer.kind = "none" -> Fail(c1, <<"missing head block">>)
               [] answer.kind = "premerge" -> Fail(c1, <<"IncorrectStateVariant">>)
               [] OTHER -> [c1 EXCEPT !.head_block_root = answer.root,
                                      !.head_execution_hash = answer.block_hash]

step_head_check_inverted(c) ==
    IF Failed(c) THEN c
    ELSE LET parent == from_ssz_rs(c.req.parent_hash)
         IN  IF ~parent.ok THEN Fail(c, parent.err)
             ELSE IF c.head_execution_hash = parent.v
                  THEN Fail(c, <<"head mismatch", c.head_execution_hash, c.req.parent_hash>>)
                  ELSE c

\* lines 201-206
step_head_check(c) ==
    IF Failed(c) THEN c
    ELSE LET parent == from_ssz_rs(c.req.parent_hash)
         IN  IF ~parent.ok THEN Fail(c, parent.err)
             ELSE IF c.head_execution_hash # parent.v
                  THEN Fail(c, <<"head mismatch", c.head_execution_hash, c.req.parent_hash>>)
                  ELSE c

\* lines 208-220
step_finalized_execution_hash(c, answer) ==
    IF Failed(c) THEN c
    ELSE LET c1 == Called(c, "get_beacon_blocks", <<"Finalized">>)
         IN  CASE answer.kind = "error" -> Fail(c1, <<"http error">>)
               [] answer.kind = "none" -> Fail(c1, <<"missing finalized block">>)
               [] answer.kind = "premerge" -> Fail(c1, <<"IncorrectStateVariant">>)
               [] OTHER -> [c1 EXCEPT !.finalized_execution_hash = answer.block_hash]

step_val_index_always(c, answer) ==
    IF Failed(c) THEN Called(c, "get_beacon_states_validator_id", <<"Head">>)
    ELSE LET pk == from_ssz_rs(c.cached_data.public_key)
         IN  IF ~pk.ok THEN Fail(c, pk.err)
             ELSE LET c1 == Called(c, "get_beacon_states_validator_id", <<"Head", pk.v>>)
                  IN  CASE answer.kind = "error" -> Fail(c1, <<"http error">>)
                        [] answer.kind = "none" ->
                                Fail(c1, <<"missing validator from state">>)
                        [] OTHER -> [c1 EXCEPT !.val_index = ValidatorIndex(pk.v)]

\* lines 222-232
step_val_index(c, answer) ==
    IF Failed(c) THEN c
    ELSE LET pk == from_ssz_rs(c.cached_data.public_key)
         IN  IF ~pk.ok THEN Fail(c, pk.err)
             ELSE LET c1 == Called(c, "get_beacon_states_validator_id", <<"Head", pk.v>>)
                  IN  CASE answer.kind = "error" -> Fail(c1, <<"http error">>)
                        [] answer.kind = "none" ->
                                Fail(c1, <<"missing validator from state">>)
                        [] OTHER -> [c1 EXCEPT !.val_index = ValidatorIndex(pk.v)]

\* lines 233-234
step_fee_recipient(c) ==
    IF Failed(c) THEN c
    ELSE LET fee == from_ssz_rs(c.cached_data.fee_recipient)
         IN  IF ~fee.ok THEN Fail(c, fee.err)
             ELSE IF c.overflow_checks /\ c.req.slot < genesis_slot
             THEN Panic([c EXCEPT !.fee_recipient = fee.v],
                        "attempt to subtract with overflow")
             ELSE [c EXCEPT !.fee_recipient = fee.v,
                            !.slots_since_genesis = u64_sub(c.req.slot, genesis_slot)]

\* lines 236-243
step_timestamp(c, answer) ==
    IF Failed(c) THEN c
    ELSE LET c1 == Called(c, "get_beacon_genesis", <<>>)
             product == c.slots_since_genesis * seconds_per_slot
         IN  IF answer.kind = "error" THEN Fail(c1, <<"http error">>)
             ELSE IF c.overflow_checks /\ product >= U64
             THEN Panic(c1, "attempt to multiply with overflow")
             ELSE IF c.overflow_checks
                        /\ u64_mul(c.slots_since_genesis, seconds_per_slot)
                                + answer.genesis_time >= U64
             THEN Panic(c1, "attempt to add with overflow")
             ELSE [c1 EXCEPT !.timestamp =
                        u64_add(u64_mul(c.slots_since_genesis, seconds_per_slot),
                                answer.genesis_time)]

\* lines 245-254
step_prev_randao(c, answer) ==
    IF Failed(c) THEN c
    ELSE LET c1 == Called(c, "get_debug_beacon_states", <<"Head">>)
         IN  CASE answer.kind = "error" -> Fail(c1, <<"http error">>)
               [] answer.kind = "none" -> Fail(c1, <<"missing head state">>)
               [] answer.kind = "no mix" -> Fail(c1, <<"randao mix out of bounds">>)
               [] OTHER -> [c1 EXCEPT !.prev_randao = answer.randao_mix]

step_insert_proposer_by_hash(c) ==
    IF Failed(c) THEN c
    ELSE LET attributes == [timestamp |-> c.timestamp, prev_randao |-> c.prev_randao,
                            suggested_fee_recipient |-> c.fee_recipient]
             slot == c.req.slot
             c1 == Called(c, "insert_proposer",
                          <<slot, c.head_execution_hash, c.val_index, attributes>>)
         IN  [c1 EXCEPT !.payload_attributes = attributes,
                        !.el_proposers = ElInsertProposer(c.el_proposers, slot,
                                            c.head_execution_hash, c.val_index, attributes)]

\* lines 256-264
step_insert_proposer(c) ==
    IF Failed(c) THEN c
    ELSE LET attributes == [timestamp |-> c.timestamp, prev_randao |-> c.prev_randao,
                            suggested_fee_recipient |-> c.fee_recipient]
             slot == c.req.slot
             c1 == Called(c, "insert_proposer",
                          <<slot, c.head_block_root, c.val_index, attributes>>)
         IN  [c1 EXCEPT !.payload_attributes = attributes,
                        !.el_proposers = ElInsertProposer(c.el_proposers, slot,
                                            c.head_block_root, c.val_index, attributes)]

step_payload_drained(c, answer) ==
    IF Failed(c) THEN c
    ELSE LET c1 == Called(c, "get_full_payload_caching",
                          <<c.head_execution_hash, c.timestamp, c.prev_randao,
                            c.finalized_execution_hash, c.fee_recipient>>)
         IN  IF answer.kind = "error"
             THEN Fail([c1 EXCEPT !.operations = <<>>], <<"engine error">>)
             ELSE LET payload == ElBuildPayload(c.head_execution_hash, c.timestamp,
                                                c.prev_randao, c.fee_recipient)
                  IN  [c1 EXCEPT !.el_payloads = @ \cup {payload},
                                 !.header = to_execution_payload_header(payload)]

\* lines 266-277
step_payload(c, answer) ==
    IF Failed(c) THEN c
    ELSE LET c1 == Called(c, "get_full_payload_caching",
                          <<c.head_execution_hash, c.timestamp, c.prev_randao,
                            c.finalized_execution_hash, c.fee_recipient>>)
         IN  IF answer.kind = "error" THEN Fail(c1, <<"engine error">>)
             ELSE LET payload == ElBuildPayload(c.head_execution_hash, c.timestamp,
                                                c.prev_randao, c.fee_recipient)
                  IN  [c1 EXCEPT !.el_payloads = @ \cup {payload},
                                 !.header = to_execution_payload_header(payload)]

step_header_no_override(c) ==
    IF Failed(c) THEN c
    ELSE LET header == json_from_str_header(json_to_string(c.header))
         IN  IF ~header.ok THEN Fail(c, header.err)
             ELSE [c EXCEPT !.header = header.v]

\* lines 279-283
step_header(c) ==
    IF Failed(c) THEN c
    ELSE LET header == json_from_str_header(json_to_string(c.header))
         IN  IF ~header.ok THEN Fail(c, header.err)
             ELSE [c EXCEPT !.header = [header.v EXCEPT !.gas_limit = c.cached_data.gas_limit]]

\* lines 285-289
step_message(c) ==
    IF Failed(c) THEN c
    ELSE [c EXCEPT !.message =
            [header |-> c.header, value |-> "v0", public_key |-> public_key(builder_sk)]]

\* line 291
step_apply_operations(c) ==
    IF Failed(c) THEN c
    ELSE LET r == apply_operations(c.operations, c.message)
         IN  IF ~r.result.ok
             THEN Fail([c EXCEPT !.operations = r.operations, !.applied = r.applied],
                       r.result.err)
             ELSE [c EXCEPT !.operations = r.operations, !.applied = r.applied,
                            !.message = r.bid]

step_signature_early(c) ==
    IF Failed(c) THEN c
    ELSE [c EXCEPT !.signature =
            sign_builder_message(
                [header |-> c.header, value |-> "v0", public_key |-> public_key(builder_sk)],
                builder_sk, context)]

\* lines 293-297
step_signature(c) ==
    IF Failed(c) THEN c
    ELSE [c EXCEPT !.signature = sign_builder_message(c.message, builder_sk, context)]

\* Result<SignedBuilderBid, Error>
FetchResult(c) ==
    IF Failed(c) THEN Err(c.err)
    ELSE OkV([message |-> c.message, signature |-> c.signature])

open_bid_verifying(signed_block, payloads) ==
    LET root == from_ssz_rs(hash_tree_root(signed_block.message.body.execution_payload_header))
    IN  IF signed_block.signature # "proposer signature" THEN Err(<<"invalid signature">>)
        ELSE IF ~root.ok THEN Err(root.err)
        ELSE LET found == ElPayloadsByRoot(payloads, root.v)
             IN  IF found = {} THEN Err(<<"missing payload for tx root">>)
                 ELSE json_from_str_payload(json_to_string(CHOOSE p \in found : TRUE))

\* open_bid: lines 300-318
open_bid(signed_block, payloads) ==
    LET root == from_ssz_rs(hash_tree_root(signed_block.message.body.execution_payload_header))
    IN  IF ~root.ok THEN Err(root.err)
        ELSE LET found == ElPayloadsByRoot(payloads, root.v)
             IN  IF found = {} THEN Err(<<"missing payload for tx root">>)
                 ELSE json_from_str_payload(json_to_string(CHOOSE p \in found : TRUE))

----------------------------------------------------------------------------
(* State after MockBuilder::new *)

EmptyMap == [k \in {} |-> 0]

NoCall == [op |-> "none"]

Init ==
    /\ val_registration_cache = EmptyMap
    /\ operations = <<>>
    /\ el_proposers = EmptyMap
    /\ el_payloads = {}
    /\ registrations = <<>>
    /\ ret = NoCall
    /\ tasks = EmptyMap
    /\ answers = EmptyMap

----------------------------------------------------------------------------
(* Registration, one call at a time *)

\* the caller puts one more entry into the slice of its next call; the slice
\* of a call that has returned is dropped first
ReceiveRegistration(reg) ==
    /\ ret # NoCall \/ Len(registrations) < MaxBatch
    /\ registrations' = IF ret = NoCall THEN Append(registrations, reg) ELSE <<reg>>
    /\ ret' = NoCall
    /\ UNCHANGED <<val_registration_cache, operations, el_proposers, el_payloads, tasks, answers>>

RegisterValidator ==
    /\ ret = NoCall
    /\ LET r == register_validator(val_registration_cache, registrations)
       IN  /\ val_registration_cache' = r.cache
           /\ ret' = [op |-> "register_validator", result |-> r.result]
    /\ UNCHANGED <<registrations, operations, el_proposers, el_payloads, tasks, answers>>

Next ==
    \/ \E reg \in SignedRegistrations : ReceiveRegistration(reg)
    \/ RegisterValidator

Spec == Init /\ [][Next]_vars

----------------------------------------------------------------------------
(* The builder serving one call at a time: SpecBid *)

\* the registrations, requests and blocks the calls of SpecBid are made with
BidRegistrations ==
    {ValidRegistration("k1", <<"a1", 30>>), ValidRegistration("k1", <<"a1", 31>>),
     InvalidRegistration("k2")}

BidRequests == [slot : Slots, parent_hash : Hashes, public_key : {"k1", "k2"}]

BlockHeaders ==
    {[to_execution_payload_header(
            ElBuildPayload("h1",
                u64_add(u64_mul(u64_sub(slot, genesis_slot), seconds_per_slot),
                        GenesisTime),
                "mix", fee)) EXCEPT !.gas_limit = g] :
        slot \in Slots, fee \in {"a1"}, g \in {ElGasLimit, 30}}

SignedBlindedBlocks ==
    {[message |-> [body |-> [execution_payload_header |-> h]], signature |-> sig] :
        h \in BlockHeaders, sig \in {"proposer signature", "no signature"}}

RegisterOne(reg) ==
    /\ LET r == register_validator(val_registration_cache, <<reg>>)
       IN  /\ val_registration_cache' = r.cache
           /\ ret' = [op |-> "register_validator", result |-> r.result]
    /\ registrations' = <<reg>>
    /\ UNCHANGED <<operations, el_proposers, el_payloads, tasks, answers>>

AddOperationFront(op) ==
    /\ Len(operations) < MaxOps
    /\ operations' = <<op>> \o operations
    /\ ret' = [op |-> "add_operation"]
    /\ UNCHANGED <<val_registration_cache, el_proposers, el_payloads, registrations, tasks, answers>>

\* add_operation: lines 141-143
AddOperation(op) ==
    /\ Len(operations) < MaxOps
    /\ operations' = Append(operations, op)
    /\ ret' = [op |-> "add_operation"]
    /\ UNCHANGED <<val_registration_cache, el_proposers, el_payloads, registrations, tasks, answers>>

\* the answers a call that has not returned may get to its next query
Ask(c, choices) == IF Failed(c) THEN {Answer("not asked")} ELSE choices

\* the builds a call that has not returned may be running in, when it comes
\* to the arithmetic of lines 234 and 243
AskBuild(c) == IF Failed(c) THEN {FALSE} ELSE BOOLEAN

\* fetch_best_bid: lines 178-298, each collaborator answering as it is asked
FetchBestBid(req) ==
    \E c1 \in {step_signed_cached_data(Start(req, val_registration_cache, operations,
                                               el_proposers, el_payloads))} :
    \E head \in Ask(c1, HeadAnswers) :
    \E c2 \in {step_head_check(step_head(c1, head))} :
    \E finalized \in Ask(c2, FinalizedAnswers) :
    \E c3 \in {step_finalized_execution_hash(c2, finalized)} :
    \E validator \in Ask(c3, ValidatorAnswers) :
    \E c3v \in {step_val_index(c3, validator)} :
    \E overflow_checks \in AskBuild(c3v) :
    \E c4 \in {step_fee_recipient(Build(c3v, overflow_checks))} :
    \E genesis \in Ask(c4, GenesisAnswers) :
    \E c5 \in {step_timestamp(c4, genesis)} :
    \E state \in Ask(c5, StateAnswers) :
    \E c6 \in {step_insert_proposer(step_prev_randao(c5, state))} :
    \E payload \in Ask(c6, PayloadAnswers) :
    \E c7 \in {step_message(step_header(step_payload(c6, payload)))} :
    \E c \in {step_signature(step_apply_operations(c7))} :
        /\ val_registration_cache' = c.val_registration_cache
        /\ operations' = c.operations
        /\ el_proposers' = c.el_proposers
        /\ el_payloads' = c.el_payloads
        /\ ret' = [op |-> "fetch_best_bid", result |-> FetchResult(c), c |-> c]
        /\ UNCHANGED <<registrations, tasks, answers>>

OpenBid(signed_block) ==
    /\ ret' = [op |-> "open_bid", result |-> open_bid(signed_block, el_payloads),
               signed_block |-> signed_block]
    /\ UNCHANGED <<val_registration_cache, operations, el_proposers, el_payloads,
                   registrations, tasks, answers>>

NextBid ==
    \/ \E reg \in BidRegistrations : RegisterOne(reg)
    \/ \E op \in Operations : AddOperation(op)
    \/ \E req \in BidRequests : FetchBestBid(req)
    \/ \E signed_block \in SignedBlindedBlocks : OpenBid(signed_block)

SpecBid == Init /\ [][NextBid]_vars

----------------------------------------------------------------------------
(* fetch_best_bid against collaborators whose answers are settled before the *)
(* call: SpecPlan.  Unlike in SpecBid, what a query the call never makes     *)
(* would have been answered is part of the state.                            *)

\* fetch_best_bid: lines 178-298, the collaborators answering as in plan
fetch_best_bid(req, cache, ops, proposers, payloads, plan, overflow_checks) ==
    LET c1 == step_signed_cached_data(
                    Build(Start(req, cache, ops, proposers, payloads), overflow_checks))
        c2 == step_head_check(step_head(c1, plan.head))
        c3 == step_finalized_execution_hash(c2, plan.finalized)
        c4 == step_fee_recipient(step_val_index(c3, plan.validator))
        c5 == step_timestamp(c4, plan.genesis)
        c6 == step_insert_proposer(step_prev_randao(c5, plan.state))
        c7 == step_message(step_header(step_payload(c6, plan.payload)))
    IN  step_signature(step_apply_operations(c7))

\* every answer of SpecBid, and a second head, finalized block and head state
AnswerPlans ==
    [head : HeadAnswers \cup {[kind |-> "ok", root |-> "r2", block_hash |-> "h2"]},
     finalized : FinalizedAnswers \cup {[kind |-> "ok", root |-> "r3", block_hash |-> "hg"]},
     validator : ValidatorAnswers,
     genesis : GenesisAnswers,
     state : StateAnswers \cup {[kind |-> "ok", randao_mix |-> "mix2"]},
     payload : PayloadAnswers]

InitPlan ==
    /\ val_registration_cache = EmptyMap
    /\ operations = <<>>
    /\ el_proposers = EmptyMap
    /\ el_payloads = {}
    /\ registrations = <<>>
    /\ ret = NoCall
    /\ tasks = EmptyMap
    /\ answers \in AnswerPlans

FetchPlanned(req) ==
    \E overflow_checks \in BOOLEAN :
    \E c \in {fetch_best_bid(req, val_registration_cache, operations, el_proposers,
                              el_payloads, answers, overflow_checks)} :
        /\ val_registration_cache' = c.val_registration_cache
        /\ operations' = c.operations
        /\ el_proposers' = c.el_proposers
        /\ el_payloads' = c.el_payloads
        /\ ret' = [op |-> "fetch_best_bid", result |-> FetchResult(c), c |-> c]
        /\ UNCHANGED <<registrations, tasks, answers>>

NextPlan ==
    \/ \E reg \in BidRegistrations : RegisterOne(reg)
    \/ \E req \in BidRequests : FetchPlanned(req)

SpecPlan == InitPlan /\ [][NextPlan]_vars

----------------------------------------------------------------------------
(* fetch_best_bid for any slot of a request, every collaborator answering:   *)
(* SpecTime                                                                  *)

\* the calls that reach the execution layer in one run
MaxFetches == 1

\* bid_request.slot is a u64 of the caller's choosing
TimeSlots == 0..(U64 - 1)

TimeRequests == [slot : TimeSlots, parent_hash : {"h1"}, public_key : {"k1"}]

OkPlan ==
    [head |-> [kind |-> "ok", root |-> "r1", block_hash |-> "h1"],
     finalized |-> [kind |-> "ok", root |-> "r0", block_hash |-> "hf"],
     validator |-> Answer("ok"),
     genesis |-> [kind |-> "ok", genesis_time |-> GenesisTime],
     state |-> [kind |-> "ok", randao_mix |-> "mix"],
     payload |-> Answer("ok")]

InitTime ==
    /\ val_registration_cache = EmptyMap
    /\ operations = <<>>
    /\ el_proposers = EmptyMap
    /\ el_payloads = {}
    /\ registrations = <<>>
    /\ ret = NoCall
    /\ tasks = EmptyMap
    /\ answers = OkPlan

FetchAtSlot(req) ==
    /\ Cardinality(DOMAIN el_proposers) < MaxFetches
    /\ FetchPlanned(req)

NextTime ==
    \/ \E reg \in BidRegistrations : RegisterOne(reg)
    \/ \E req \in TimeRequests : FetchAtSlot(req)

SpecTime == InitTime /\ [][NextTime]_vars

----------------------------------------------------------------------------
(* The codec bridge and the JSON translation on their own: SpecCodec *)

\* addresses, hashes, keys and amounts handed to the bridge
CodecValues == {"a1", "a2", "a3", "ax", "h1", "h2", "k1", "k2", "v0", "v7"}

CodecPayloads ==
    {[ElBuildPayload(h, t, "mix", fee) EXCEPT !.gas_limit = g] :
        h \in Hashes, t \in 0..3, fee \in {"a1", "a2", "a3"}, g \in {30, ElGasLimit}}

CodecHeaders == {to_execution_payload_header(p) : p \in CodecPayloads}

TargetFields(target) == IF target = "header" THEN HeaderFields ELSE PayloadFields

ToSszRs(x) ==
    /\ ret' = [op |-> "to_ssz_rs", x |-> x, result |-> to_ssz_rs(x)]
    /\ UNCHANGED <<val_registration_cache, operations, el_proposers, el_payloads,
                   registrations, tasks, answers>>

\* the value to_ssz_rs gave, handed back to from_ssz_rs
FromSszRs ==
    /\ ret.op = "to_ssz_rs"
    /\ ret.result.ok
    /\ ret' = [op |-> "from_ssz_rs", x |-> ret.x, y |-> ret.result.v,
               result |-> from_ssz_rs(ret.result.v)]
    /\ UNCHANGED <<val_registration_cache, operations, el_proposers, el_payloads,
                   registrations, tasks, answers>>

\* lines 279 and 316
JsonToString(v) ==
    /\ ret' = [op |-> "to_string", x |-> v, json |-> json_to_string(v)]
    /\ UNCHANGED <<val_registration_cache, operations, el_proposers, el_payloads,
                   registrations, tasks, answers>>

\* lines 280-281 and 317
FromStr(target) ==
    /\ ret.op = "to_string"
    /\ ret' = [op |-> "from_str", x |-> ret.x, target |-> target,
               result |-> json_from_str(ret.json, TargetFields(target))]
    /\ UNCHANGED <<val_registration_cache, operations, el_proposers, el_payloads,
                   registrations, tasks, answers>>

NextCodec ==
    \/ \E x \in CodecValues : ToSszRs(x)
    \/ FromSszRs
    \/ \E v \in CodecPayloads \cup CodecHeaders : JsonToString(v)
    \/ \E target \in {"header", "payload"} : FromStr(target)

SpecCodec == Init /\ [][NextCodec]_vars

----------------------------------------------------------------------------
(* Two register_validator calls at once: SpecConc.  Each iteration of the    *)
(* loop takes the write lock for its insert, so the calls interleave entry   *)
(* by entry; a reader takes the read lock between two inserts.               *)

Tasks == {"t1", "t2"}

ConcRegistrations ==
    {ValidRegistration("k1", <<"a1", 30>>), ValidRegistration("k1", <<"a2", 31>>),
     ValidRegistration("k2", <<"a1", 30>>), InvalidRegistration("k2")}

RECURSIVE SeqsUpTo(_, _)
SeqsUpTo(S, n) ==
    IF n = 0 THEN {<<>>}
    ELSE LET shorter == SeqsUpTo(S, n - 1)
         IN  shorter \cup {Append(q, x) : q \in shorter, x \in S}

ConcBatches == SeqsUpTo(ConcRegistrations, MaxConcBatch)

\* both calls have been made, neither has run an iteration
InitConc ==
    /\ val_registration_cache = EmptyMap
    /\ operations = <<>>
    /\ el_proposers = EmptyMap
    /\ el_payloads = {}
    /\ registrations = <<>>
    /\ ret = NoCall
    /\ tasks \in [Tasks -> {[registrations |-> b, i |-> 1, result |-> NoCall] :
                                b \in ConcBatches}]
    /\ answers = EmptyMap

Running(t) == tasks[t].result = NoCall

\* one iteration of the loop of task t (lines 160-173), or its return (line 175)
RegisterIteration(t) ==
    /\ Running(t)
    /\ LET regs == tasks[t].registrations
           i == tasks[t].i
       IN  IF i > Len(regs)
           THEN /\ tasks' = [tasks EXCEPT ![t].result = Ok]
                /\ UNCHANGED val_registration_cache
           ELSE LET registration == regs[i]
                    pubkey == registration.message.public_key
                IN  IF ~verify_signed_builder_message(registration.message,
                            registration.signature, pubkey, context)
                    THEN /\ tasks' = [tasks EXCEPT ![t].result = Err(<<"invalid signature">>)]
                         /\ UNCHANGED val_registration_cache
                    ELSE /\ val_registration_cache' =
                                CacheInsert(val_registration_cache,
                                            registration.message.public_key, registration)
                         /\ tasks' = [tasks EXCEPT ![t].i = i + 1]
    /\ UNCHANGED <<operations, el_proposers, el_payloads, registrations, ret, answers>>

\* the read of fetch_best_bid (lines 183-188) under the read lock
Lookup(k) ==
    /\ \E t \in Tasks : Running(t)
    /\ ret' = [op |-> "lookup", key |-> k,
               found |-> IF k \in DOMAIN val_registration_cache
                         THEN {val_registration_cache[k]} ELSE {}]
    /\ UNCHANGED <<val_registration_cache, operations, el_proposers, el_payloads,
                   registrations, tasks, answers>>

NextConc ==
    \/ \E t \in Tasks : RegisterIteration(t)
    \/ \E k \in {"k1", "k2"} : Lookup(k)

SpecConc == InitConc /\ [][NextConc]_vars

----------------------------------------------------------------------------
(* Two fetch_best_bid calls at line 291 and add_operation at once: SpecDrain. *)
(* apply_operations takes the write lock of the queue (line 146), holds it   *)
(* over every iteration of its loop and gives it up when it returns;         *)
(* add_operation takes it for its push (line 142).                           *)

\* the calls of add_operation in one run
MaxAdds == 3

\* the bid a call brings to apply_operations
DrainBid ==
    [header |-> [to_execution_payload_header(ElBuildPayload("h1", 8, "mix", "a1"))
                    EXCEPT !.gas_limit = 30],
     value |-> "v0", public_key |-> public_key(builder_sk)]

\* ret.added: the operations add_operation has been called with, in order
InitDrain ==
    /\ val_registration_cache = EmptyMap
    /\ operations = <<>>
    /\ el_proposers = EmptyMap
    /\ el_payloads = {}
    /\ registrations = <<>>
    /\ ret = [op |-> "none", added |-> <<>>]
    /\ tasks = [t \in Tasks |->
                    [pc |-> "called", found |-> <<>>, applied |-> <<>>,
                     bid |-> DrainBid, result |-> NoCall]]
    /\ answers = EmptyMap

WriteLockedNever == FALSE

\* a call holds the write lock of the queue: it is inside apply_operations
WriteLocked == \E t \in Tasks : tasks[t].pc = "draining"

\* add_operation: line 142, each operation of a run a different one
AddOperationConc(op) ==
    /\ ~WriteLocked
    /\ Len(ret.added) < MaxAdds
    /\ \A i \in 1..Len(ret.added) : ret.added[i] # op
    /\ operations' = Append(operations, op)
    /\ ret' = [op |-> "add_operation", added |-> Append(ret.added, op)]
    /\ UNCHANGED <<val_registration_cache, el_proposers, el_payloads, registrations,
                   tasks, answers>>

\* line 146
AcquireGuard(t) ==
    /\ tasks[t].pc = "called"
    /\ ~WriteLocked
    /\ tasks' = [tasks EXCEPT ![t].pc = "draining", ![t].found = operations]
    /\ UNCHANGED <<val_registration_cache, operations, el_proposers, el_payloads,
                   registrations, ret, answers>>

\* one turn of the loop of lines 147-149, or the return of line 150; the
\* return, through ? too, gives the lock up
PopAndApply(t) ==
    /\ tasks[t].pc = "draining"
    /\ IF operations = <<>>
       THEN /\ tasks' = [tasks EXCEPT ![t].pc = "done",
                                      ![t].result = OkV(tasks[t].bid)]
            /\ UNCHANGED operations
       ELSE LET op == operations[Len(operations)]
                r == Operation_apply(op, tasks[t].bid)
            IN  /\ operations' = SubSeq(operations, 1, Len(operations) - 1)
                /\ tasks' = IF ~r.ok
                            THEN [tasks EXCEPT ![t].pc = "done", ![t].result = r]
                            ELSE [tasks EXCEPT ![t].bid = r.v,
                                               ![t].applied = Append(@, op)]
    /\ UNCHANGED <<val_registration_cache, el_proposers, el_payloads, registrations,
                   ret, answers>>

NextDrain ==
    \/ \E op \in Operations : AddOperationConc(op)
    \/ \E t \in Tasks : AcquireGuard(t)
    \/ \E t \in Tasks : PopAndApply(t)

SpecDrain == InitDrain /\ [][NextDrain]_vars

----------------------------------------------------------------------------
(* Claims about register_validator, checked under Spec *)

Verifies(reg) ==
    verify_signed_builder_message(reg.message, reg.signature, reg.message.public_key, context)

\* the position of the first entry of b that fails verification, Len(b) + 1 if none
FirstInvalid(b) ==
    LET bad == {i \in 1..Len(b) : ~Verifies(b[i])}
    IN  IF bad = {} THEN Len(b) + 1 ELSE CHOOSE i \in bad : \A j \in bad : i <= j

KeyAt(b, j) == b[j].message.public_key

\* a step in which register_validator runs on the slice `registrations`
RegisterStep == ret = NoCall /\ ret'.op = "register_validator"

SameAt(c1, c2, k) ==
    /\ (k \in DOMAIN c1) = (k \in DOMAIN c2)
    /\ k \in DOMAIN c1 => c1[k] = c2[k]

\* C1: when entry i is the first of the batch whose signature fails
\* verification, the call returns an error, every entry before i has been
\* committed (the cache holds it under its key unless a later entry before i
\* has the same key), and no entry from i on has been: a key that occurs only
\* from i on has the entry, or the absence, it had before the call.
C1_BatchNonAtomic ==
    [][RegisterStep =>
        LET b == registrations
            i == FirstInvalid(b)
        IN  i <= Len(b) =>
              /\ ~ret'.result.ok
              /\ \A j \in 1..(i - 1) :
                    \/ \E j2 \in (j + 1)..(i - 1) : KeyAt(b, j2) = KeyAt(b, j)
                    \/ /\ KeyAt(b, j) \in DOMAIN val_registration_cache'
                       /\ val_registration_cache'[KeyAt(b, j)] = b[j]
              /\ \A j \in i..Len(b) :
                    \/ \E j2 \in 1..(i - 1) : KeyAt(b, j2) = KeyAt(b, j)
                    \/ SameAt(val_registration_cache', val_registration_cache, KeyAt(b, j))
    ]_vars

\* C1 witness: a batch [valid1, invalid, valid2] with three distinct keys has
\* returned an error, and the cache holds valid1 and nothing else.
C1_Witness ==
    /\ ret.op = "register_validator"
    /\ ~ret.result.ok
    /\ Len(registrations) = 3
    /\ Verifies(registrations[1]) /\ ~Verifies(registrations[2]) /\ Verifies(registrations[3])
    /\ Cardinality({KeyAt(registrations, j) : j \in 1..3}) = 3
    /\ DOMAIN val_registration_cache = {KeyAt(registrations, 1)}
    /\ val_registration_cache[KeyAt(registrations, 1)] = registrations[1]

\* C2: after a register_validator call the entry of every key k is the last
\* registration for k among the entries processed (those before the first
\* failure, all of which verified); a key with no such entry keeps the entry,
\* or the absence, it had.
C2_LastWriteWins ==
    [][RegisterStep =>
        LET b == registrations
            i == FirstInvalid(b)
        IN  \A k \in Keys :
              LET hits == {j \in 1..(i - 1) : KeyAt(b, j) = k}
              IN  IF hits = {}
                  THEN SameAt(val_registration_cache', val_registration_cache, k)
                  ELSE /\ k \in DOMAIN val_registration_cache'
                       /\ val_registration_cache'[k] =
                            b[CHOOSE j \in hits : \A j2 \in hits : j2 <= j]
    ]_vars

\* C2 witness: a call registered one key twice with different registrations,
\* then an entry for that key failed verification; the cache holds the second.
C2_Witness ==
    /\ ret.op = "register_validator"
    /\ Len(registrations) = 3
    /\ KeyAt(registrations, 1) = KeyAt(registrations, 2)
    /\ KeyAt(registrations, 2) = KeyAt(registrations, 3)
    /\ Verifies(registrations[1]) /\ Verifies(registrations[2]) /\ ~Verifies(registrations[3])
    /\ registrations[1] # registrations[2]
    /\ val_registration_cache[KeyAt(registrations, 1)] = registrations[2]

\* C17: every entry of the registration cache is stored under the public key
\* of its own message and verifies against that key under the Context; and no
\* step removes a key from the cache.
C17_CacheInvariant ==
    [][/\ \A k \in DOMAIN val_registration_cache' :
            /\ val_registration_cache'[k].message.public_key = k
            /\ verify_signed_builder_message(val_registration_cache'[k].message,
                    val_registration_cache'[k].signature, k, context)
       /\ DOMAIN val_registration_cache \subseteq DOMAIN val_registration_cache'
    ]_vars

\* C17 witness: a call whose batch held an entry that fails verification has
\* returned, and the cache holds entries for two keys.
C17_Witness ==
    /\ ret.op = "register_validator"
    /\ ~ret.result.ok
    /\ \E j \in 1..Len(registrations) : ~Verifies(registrations[j])
    /\ Cardinality(DOMAIN val_registration_cache) = 2

----------------------------------------------------------------------------
(* Claims about fetch_best_bid and the operation queue, checked under SpecBid *)

\* a step in which fetch_best_bid runs; ret'.c holds the locals it returned with
FetchStep == ret'.op = "fetch_best_bid"

Fetched == ret.op = "fetch_best_bid"

\* the queue as the call found it, last entry first
Reversed(q) == [i \in 1..Len(q) |-> q[Len(q) + 1 - i]]

\* the positions of the operations of one kind in a queue
OfKind(q, kind) == {i \in 1..Len(q) : q[i].kind = kind}

Earliest(S) == CHOOSE i \in S : \A j \in S : i <= j

\* C3: a fetch_best_bid call in which every application succeeds applies the
\* queued operations tail-most first (the reverse of the order add_operation
\* gave them), so the earliest-added operation on a field decides the field's
\* value in the bid, and leaves the queue empty.
C3_ReverseOrder ==
    [][(FetchStep /\ ret'.result.ok) =>
        LET q == operations
            bid == ret'.result.v.message
        IN  /\ ret'.c.applied = Reversed(q)
            /\ operations' = <<>>
            /\ OfKind(q, "GasLimit") # {} =>
                    bid.header.gas_limit = q[Earliest(OfKind(q, "GasLimit"))].n
            /\ OfKind(q, "FeeRecipient") # {} =>
                    bid.header.fee_recipient = q[Earliest(OfKind(q, "FeeRecipient"))].addr
            /\ OfKind(q, "Value") # {} =>
                    bid.value = q[Earliest(OfKind(q, "Value"))].val
    ]_vars

\* C3 witness: a returned bid for which two GasLimit operations with different
\* values were queued; it has the value of the one added first.
C3_Witness ==
    /\ Fetched /\ ret.result.ok
    /\ Len(ret.c.ops0) = 2
    /\ ret.c.ops0[1].kind = "GasLimit" /\ ret.c.ops0[2].kind = "GasLimit"
    /\ ret.c.ops0[1].n # ret.c.ops0[2].n
    /\ ret.result.v.message.header.gas_limit = ret.c.ops0[1].n
    /\ operations = <<>>

\* the call returned with the error of an operation's conversion
ApplyFailed(r) == ~r.result.ok /\ r.result.err[1] = "to_ssz_rs"

OpFails(op, bid) == ~Operation_apply(op, bid).ok

HeadQuery == [fn |-> "get_beacon_blocks", args |-> <<"Head">>]

\* C5: a call that got the head block and whose parent_hash differs from the
\* head's execution block hash returns the head-mismatch error with both hashes,
\* having asked the beacon node for the head block and nothing else, and having
\* called neither insert_proposer nor the payload builder.
C5_HeadMismatch ==
    [][(/\ FetchStep
        /\ ret'.c.head_execution_hash # "-"
        /\ ret'.c.req.parent_hash # ret'.c.head_execution_hash) =>
            /\ ret'.result = Err(<<"head mismatch", ret'.c.head_execution_hash,
                                   ret'.c.req.parent_hash>>)
            /\ ret'.c.calls = <<HeadQuery>>
            /\ el_proposers' = el_proposers
            /\ el_payloads' = el_payloads
    ]_vars

\* C5 witness: a request for parent h2 on head h1 has returned the error.
C5_Witness ==
    /\ Fetched
    /\ ret.c.req.parent_hash = "h2"
    /\ ret.result = Err(<<"head mismatch", "h1", "h2">>)

\* C6: a call for a public key with no cache entry returns the
\* missing-registration error without having called any collaborator.
C6_MissingRegistration ==
    [][(FetchStep /\ ret'.c.req.public_key \notin DOMAIN val_registration_cache) =>
            /\ ret'.result = Err(<<"missing registration">>)
            /\ ret'.c.calls = <<>>
            /\ el_proposers' = el_proposers
            /\ el_payloads' = el_payloads
    ]_vars

\* C6 witness: such a call has returned while another key is registered.
C6_Witness ==
    /\ Fetched
    /\ ret.result = Err(<<"missing registration">>)
    /\ ret.c.req.public_key \notin DOMAIN val_registration_cache
    /\ DOMAIN val_registration_cache # {}

RegisteredGasLimit == val_registration_cache[ret.c.req.public_key].message.gas_limit

\* C7 as stated: every returned bid has the gas limit of the registration.
C7_GasLimitIsRegistered ==
    (Fetched /\ ret.result.ok) =>
        ret.result.v.message.header.gas_limit = RegisteredGasLimit

\* C7 as amended: a returned bid has the gas limit of the cached registration
\* of the requesting key, not that of the payload, unless a GasLimit operation
\* was queued, and then it has that of the earliest-added GasLimit operation.
C7_GasLimitOverride ==
    (Fetched /\ ret.result.ok) =>
        LET q == ret.c.ops0
        IN  ret.result.v.message.header.gas_limit =
                IF OfKind(q, "GasLimit") = {} THEN RegisteredGasLimit
                ELSE q[Earliest(OfKind(q, "GasLimit"))].n

\* C7 witness: a bid with the registration's gas limit for a payload that the
\* execution layer built with another.
C7_Witness ==
    /\ Fetched /\ ret.result.ok
    /\ OfKind(ret.c.ops0, "GasLimit") = {}
    /\ ret.result.v.message.header.gas_limit = RegisteredGasLimit
    /\ \E p \in el_payloads :
            /\ p.gas_limit # RegisteredGasLimit
            /\ p.timestamp = ret.result.v.message.header.timestamp

\* C8: the signature of every returned bid verifies, over the message as
\* returned (after the gas-limit override and the queued operations), against
\* the builder's public key under the Context, and that key is the bid's
\* public_key.
C8_SignatureValid ==
    (Fetched /\ ret.result.ok) =>
        LET signed_bid == ret.result.v
        IN  /\ verify_signed_builder_message(signed_bid.message, signed_bid.signature,
                    public_key(builder_sk), context)
            /\ signed_bid.message.public_key = public_key(builder_sk)

\* C8 witness: a returned bid that queued operations have changed.
C8_Witness ==
    /\ Fetched /\ ret.result.ok
    /\ Len(ret.c.applied) = 2
    /\ ret.result.v.message.header # ret.c.header
    /\ ret.result.v.message.value # "v0"

FailedCall(r) == r.op \in {"fetch_best_bid", "open_bid"} /\ ~r.result.ok

\* C9 as stated: a fetch_best_bid or open_bid call that returns an error has
\* changed nothing but the operation queue.
C9_OnlyQueueChanges ==
    [][FailedCall(ret') =>
        /\ val_registration_cache' = val_registration_cache
        /\ el_proposers' = el_proposers
        /\ el_payloads' = el_payloads
    ]_vars

Calls(c, fn) == {i \in 1..Len(c.calls) : c.calls[i].fn = fn}

\* C9 as amended: a fetch_best_bid or open_bid call that returns an error has
\* not changed the registration cache; open_bid has changed nothing; and
\* fetch_best_bid has changed the execution layer exactly as far as it got: a
\* call that failed in the payload request or later has registered its proposer
\* entry, a call that failed after the payload request has had the payload
\* cached, and a call that failed earlier has changed neither.
C9_FailedCallEffects ==
    [][FailedCall(ret') =>
        /\ val_registration_cache' = val_registration_cache
        /\ ret'.op = "open_bid" =>
                /\ el_proposers' = el_proposers
                /\ el_payloads' = el_payloads
                /\ operations' = operations
        /\ ret'.op = "fetch_best_bid" =>
            LET c == ret'.c
            IN  /\ el_proposers' =
                      IF Calls(c, "insert_proposer") = {} THEN el_proposers
                      ELSE ElInsertProposer(el_proposers, c.req.slot, c.head_block_root,
                                            c.val_index, c.payload_attributes)
                /\ el_payloads' =
                      IF ApplyFailed(ret')
                      THEN el_payloads \cup
                              {ElBuildPayload(c.head_execution_hash, c.timestamp,
                                              c.prev_randao, c.fee_recipient)}
                      ELSE el_payloads
                /\ Calls(c, "get_full_payload_caching") # {} =>
                        Calls(c, "insert_proposer") # {}
    ]_vars

\* C9 witness: the payload request failed, and the proposer entry of the call
\* is registered with the execution layer.
C9_Witness ==
    /\ Fetched
    /\ ret.result = Err(<<"engine error">>)
    /\ <<ret.c.req.slot, ret.c.head_block_root>> \in DOMAIN el_proposers
    /\ el_payloads = {}

----------------------------------------------------------------------------
(* Claims about concurrent registration, checked under SpecConc *)

BatchKeys(b) == {KeyAt(b, j) : j \in 1..Len(b)}

\* the cache after the call on b1 and then the call on b2, from the empty cache
OneAfterTheOther(b1, b2) ==
    register_validator(register_validator(EmptyMap, b1).cache, b2).cache

BothReturned == \A t \in Tasks : ~Running(t)

\* C10: when both calls have returned, each has the result it has alone; if
\* their batches share no key, the cache is the one that running them one after
\* the other gives, in either order; and for every key, shared or not, the
\* entry is the whole entry that one of the two orders gives, never another.
C10_NoInterference ==
    BothReturned =>
        LET b1 == tasks["t1"].registrations
            b2 == tasks["t2"].registrations
            c12 == OneAfterTheOther(b1, b2)
            c21 == OneAfterTheOther(b2, b1)
        IN  /\ \A t \in Tasks :
                    tasks[t].result = register_validator(EmptyMap, tasks[t].registrations).result
            /\ BatchKeys(b1) \cap BatchKeys(b2) = {} =>
                    /\ val_registration_cache = c12
                    /\ val_registration_cache = c21
            /\ DOMAIN val_registration_cache = DOMAIN c12
            /\ \A k \in DOMAIN val_registration_cache :
                    val_registration_cache[k] \in {c12[k], c21[k]}

\* C10 witness: two calls on different keys have both returned, and both
\* entries are in the cache.
C10_Witness ==
    /\ BothReturned
    /\ BatchKeys(tasks["t1"].registrations) = {"k1"}
    /\ BatchKeys(tasks["t2"].registrations) = {"k2"}
    /\ DOMAIN val_registration_cache = {"k1", "k2"}

\* C10, same key: two calls on one key with different registrations have both
\* returned, and the cache holds the one of the call that ran first alone.
C10_WitnessSameKey ==
    /\ BothReturned
    /\ Len(tasks["t1"].registrations) = 1
    /\ Len(tasks["t2"].registrations) = 1
    /\ KeyAt(tasks["t1"].registrations, 1) = KeyAt(tasks["t2"].registrations, 1)
    /\ tasks["t1"].registrations # tasks["t2"].registrations
    /\ Verifies(tasks["t1"].registrations[1]) /\ Verifies(tasks["t2"].registrations[1])
    /\ val_registration_cache[KeyAt(tasks["t1"].registrations, 1)] =
            tasks["t1"].registrations[1]

----------------------------------------------------------------------------
(* Claims about the order of the collaborator calls, checked under SpecPlan *)

\* the collaborator calls of fetch_best_bid in the order of the code
CollaboratorOrder ==
    <<[fn |-> "get_beacon_blocks", to |-> "Head"],
      [fn |-> "get_beacon_blocks", to |-> "Finalized"],
      [fn |-> "get_beacon_states_validator_id", to |-> "Head"],
      [fn |-> "get_beacon_genesis", to |-> "-"],
      [fn |-> "get_debug_beacon_states", to |-> "Head"],
      [fn |-> "insert_proposer", to |-> "-"],
      [fn |-> "get_full_payload_caching", to |-> "-"]>>

\* a recorded call as an entry of CollaboratorOrder
CallName(call) ==
    [fn |-> call.fn,
     to |-> IF call.fn \in {"insert_proposer", "get_full_payload_caching",
                            "get_beacon_genesis"}
            THEN "-" ELSE call.args[1]]

\* the error the i-th collaborator call returns under a plan, <<>> if none
StepError(plan, i) ==
    LET answer == CASE i = 1 -> plan.head
                    [] i = 2 -> plan.finalized
                    [] i = 3 -> plan.validator
                    [] i = 4 -> plan.genesis
                    [] i = 5 -> plan.state
                    [] i = 6 -> Answer("ok")
                    [] OTHER -> plan.payload
    IN  CASE answer.kind = "error" ->
                IF i = 7 THEN <<"engine error">> ELSE <<"http error">>
          [] answer.kind = "none" ->
                CASE i = 1 -> <<"missing head block">>
                  [] i = 2 -> <<"missing finalized block">>
                  [] i = 3 -> <<"missing validator from state">>
                  [] OTHER -> <<"missing head state">>
          [] answer.kind = "premerge" -> <<"IncorrectStateVariant">>
          [] answer.kind = "no mix" -> <<"randao mix out of bounds">>
          [] OTHER -> <<>>

FailingSteps(plan) == {i \in 1..7 : StepError(plan, i) # <<>>}

\* C11: the collaborator calls of one fetch_best_bid call are a prefix of the
\* fixed order (each at most once, none out of order); the call stops at the
\* first step whose collaborator fails and returns that step's error, whatever
\* the later collaborators would have answered; a call that no collaborator
\* fails makes all seven calls unless it lacks the registration or the head
\* does not match.
C11_FirstFailureAborts ==
    [][ret'.op = "fetch_best_bid" =>
        LET c == ret'.c
            n == Len(c.calls)
            registered == c.req.public_key \in DOMAIN val_registration_cache
            mismatch == answers.head.kind = "ok"
                            /\ answers.head.block_hash # c.req.parent_hash
            failing == FailingSteps(answers)
            first == Earliest(failing)
        IN  /\ [i \in 1..n |-> CallName(c.calls[i])] = SubSeq(CollaboratorOrder, 1, n)
            /\ ~registered => n = 0
            /\ (registered /\ mismatch) => n = 1
            /\ (registered /\ ~mismatch /\ failing # {}) =>
                    /\ n = first
                    /\ ret'.result = Err(StepError(answers, first))
            /\ (registered /\ ~mismatch /\ failing = {}) => n = 7
    ]_vars

\* C11 witness: the finalized block, the validator and the head state would
\* all fail; the call has returned the error of the finalized block after two
\* calls.
C11_Witness ==
    /\ Fetched
    /\ {2, 3, 5} \subseteq FailingSteps(answers)
    /\ 1 \notin FailingSteps(answers)
    /\ ret.result = Err(StepError(answers, 2))
    /\ Len(ret.c.calls) = 2

\* the calls of a fetch_best_bid call to one function of the execution layer
ElCalls(c, fn) == {i \in 1..Len(c.calls) : c.calls[i].fn = fn}

\* C14: a fetch_best_bid call that reaches the execution layer calls
\* insert_proposer once and then requests the payload once; insert_proposer
\* gets the request's slot, the root of the head block, the validator index of
\* the registration's public key and the attributes {timestamp, randao mix of
\* the head state, fee recipient of the registration}; the payload request gets
\* the head's execution hash, the same timestamp, mix and fee recipient, and
\* the finalized block's execution hash.
C14_ProposerPairing ==
    [][(ret'.op = "fetch_best_bid"
            /\ ElCalls(ret'.c, "insert_proposer")
                    \cup ElCalls(ret'.c, "get_full_payload_caching") # {}) =>
        LET c == ret'.c
            registration == val_registration_cache[c.req.public_key].message
            timestamp == answers.genesis.genesis_time
                            + (c.req.slot - genesis_slot) * seconds_per_slot
            attributes == [timestamp |-> timestamp,
                           prev_randao |-> answers.state.randao_mix,
                           suggested_fee_recipient |-> registration.fee_recipient]
        IN  /\ ElCalls(c, "insert_proposer") = {6}
            /\ ElCalls(c, "get_full_payload_caching") = {7}
            /\ c.calls[6].args =
                    <<c.req.slot, answers.head.root,
                      ValidatorIndex(registration.public_key), attributes>>
            /\ c.calls[7].args =
                    <<answers.head.block_hash, timestamp, answers.state.randao_mix,
                      answers.finalized.block_hash, registration.fee_recipient>>
            /\ answers.head.block_hash = c.req.parent_hash
    ]_vars

\* C14 witness: a call on the second head, finalized block and head state has
\* registered its proposer under the head's root and requested its payload.
C14_Witness ==
    /\ Fetched
    /\ Len(ret.c.calls) = 7
    /\ ret.c.calls[6].args[2] = "r2"
    /\ ret.c.calls[7].args[1] = "h2"
    /\ ret.c.calls[7].args[4] = "hg"
    /\ ret.c.calls[7].args[3] = "mix2"

\* the bid as line 285 builds it from the header of line 283
DefaultBid(c) ==
    [header |-> c.header, value |-> "v0", public_key |-> public_key(builder_sk)]

\* C16: a fetch_best_bid call that finds the queue empty and returns a bid
\* returns the default one: value 0, the builder's public key and the header
\* as translated from the built payload, fee recipient included, with the gas
\* limit of the registration; a successful call leaves the queue
\* empty, and a call that follows a successful call with no add_operation
\* between them returns, if it returns a bid, the default one.
C16_DefaultBid ==
    [][(FetchStep /\ ret'.result.ok) =>
        /\ operations' = <<>>
        /\ (operations = <<>> \/ (Fetched /\ ret.result.ok)) =>
                /\ ret'.c.applied = <<>>
                /\ ret'.result.v.message = DefaultBid(ret'.c)
                /\ ret'.result.v.message.value = "v0"
                /\ ret'.result.v.message.public_key = public_key(builder_sk)
                /\ \E payload \in el_payloads' :
                        ret'.result.v.message.header =
                            [to_execution_payload_header(payload) EXCEPT
                                !.gas_limit = RegisteredGasLimit']
    ]_vars

\* C16 witness: a call that found the queue empty has returned a bid of value
\* 0 whose fee recipient is the payload's.
C16_Witness ==
    /\ Fetched /\ ret.result.ok
    /\ ret.c.ops0 = <<>>
    /\ ret.result.v.message.value = "v0"
    /\ \E payload \in el_payloads :
            payload.fee_recipient = ret.result.v.message.header.fee_recipient
    /\ operations = <<>>

\* the call returned an error from a step before apply_operations
FailedEarly(r) == r.op = "fetch_best_bid" /\ ~r.result.ok /\ ~ApplyFailed(r)

\* C18: a fetch_best_bid call that fails before operation application has
\* applied no operation and leaves the queue exactly as it was; and a call
\* that follows such a call and returns a bid has applied the whole queue the
\* failed call found, tail-most first.
C18_OperationsSurvive ==
    [][FetchStep =>
        /\ FailedEarly(ret') =>
                /\ operations' = operations
                /\ ret'.c.applied = <<>>
        /\ (FailedEarly(ret) /\ ret'.result.ok) =>
                ret'.c.applied = Reversed(ret.c.ops0)
    ]_vars

\* C18 witness: the payload request of a call failed with two operations
\* queued, and both are still queued.
C18_Witness ==
    /\ Fetched
    /\ ret.result = Err(<<"engine error">>)
    /\ Len(ret.c.ops0) = 2
    /\ operations = ret.c.ops0

\* C20: a fetch_best_bid or open_bid call leaves the registration cache as it
\* was; a register_validator or open_bid call leaves the operation queue as it
\* was; an add_operation call appends its one operation at the tail of the
\* queue, changes neither the cache nor the execution layer, and returns
\* nothing that could be an error.
C20_Frame ==
    [][/\ ret'.op \in {"fetch_best_bid", "open_bid"} =>
            val_registration_cache' = val_registration_cache
       /\ ret'.op \in {"register_validator", "open_bid"} =>
            operations' = operations
       /\ ret'.op = "add_operation" =>
            /\ Len(operations') = Len(operations) + 1
            /\ SubSeq(operations', 1, Len(operations)) = operations
            /\ operations'[Len(operations')] \in Operations
            /\ val_registration_cache' = val_registration_cache
            /\ el_proposers' = el_proposers
            /\ el_payloads' = el_payloads
            /\ ret' = [op |-> "add_operation"]
    ]_vars

\* C20 witness: add_operation has put a second, different operation behind
\* the first, with a registration cached and a payload built.
C20_Witness ==
    /\ ret.op = "add_operation"
    /\ Len(operations) = 2
    /\ operations[1] # operations[2]
    /\ DOMAIN val_registration_cache # {}
    /\ el_payloads # {}

----------------------------------------------------------------------------
(* Claims about open_bid, checked under SpecBid *)

BlockHeader(signed_block) == signed_block.message.body.execution_payload_header

\* the payloads the execution layer has cached under the root of a header
CachedUnder(header) ==
    {p \in el_payloads :
        hash_tree_root(to_execution_payload_header(p)) = hash_tree_root(header)}

\* C12: open_bid returns, field for field, a payload the execution layer has
\* cached under the hash-tree-root of the block's execution-payload header, and
\* the missing-payload error when there is none; the same call on a block
\* with the same header and another signature returns the same.
C12_OpenBid ==
    [][ret'.op = "open_bid" =>
        LET found == CachedUnder(BlockHeader(ret'.signed_block))
        IN  /\ found = {} => ret'.result = Err(<<"missing payload for tx root">>)
            /\ found # {} =>
                    /\ ret'.result.ok
                    /\ \E p \in found :
                            /\ DOMAIN ret'.result.v = DOMAIN p
                            /\ \A f \in DOMAIN p : ret'.result.v[f] = p[f]
            /\ \A other \in SignedBlindedBlocks :
                    BlockHeader(other) = BlockHeader(ret'.signed_block) =>
                        open_bid(other, el_payloads) = ret'.result
    ]_vars

\* C12 witness: a block that carries no proposer signature has been opened to
\* the payload that an earlier fetch_best_bid call had cached.
C12_Witness ==
    /\ ret.op = "open_bid"
    /\ ret.result.ok
    /\ ret.signed_block.signature = "no signature"
    /\ ret.result.v.parent_hash = "h1"
    /\ ret.result.v.transactions = "txs"
    /\ el_payloads # {}

\* C12, the other case: a payload is cached, none under the root of the
\* block's header, and the call has returned the missing-payload error.
C12_WitnessMissing ==
    /\ ret.op = "open_bid"
    /\ ret.result = Err(<<"missing payload for tx root">>)
    /\ el_payloads # {}

----------------------------------------------------------------------------
(* Claims about the codec bridge, checked under SpecCodec *)

C13_WitnessJson ==
    /\ ret.op = "from_str"
    /\ ret.target = "payload"
    /\ ret.x \in CodecPayloads
    /\ ret.result.ok
    /\ ret.result.v.gas_limit = 30

----------------------------------------------------------------------------
(* Claims about the timestamp, checked under SpecTime *)

\* the call got as far as the timestamp: it returned a bid, or panicked in the
\* arithmetic of lines 234 and 243
TimestampComputed(r) ==
    r.op = "fetch_best_bid" /\ (r.result.ok \/ r.result.err[1] = "panic")

\* C15 as stated: every call that gets as far as the timestamp returns a bid
\* whose payload was requested with, and whose header has, the timestamp
\* genesis_time + (slot - genesis_slot) * seconds_per_slot, for every slot of
\* a request; the subtraction does not wrap (slots_since_genesis is
\* slot - genesis_slot), and neither do the multiplication and the addition.
C15_TimestampFormula ==
    TimestampComputed(ret) =>
        /\ ret.result.ok
        /\ ret.c.slots_since_genesis = ret.c.req.slot - genesis_slot
        /\ ret.c.timestamp =
                GenesisTime + (ret.c.req.slot - genesis_slot) * seconds_per_slot
        /\ ret.result.v.message.header.timestamp = ret.c.timestamp

\* C15, where it holds: a call for a slot from genesis_slot on whose product
\* and sum are below 2^64 has that timestamp, whatever the build.
C15_InRange ==
    (TimestampComputed(ret)
        /\ ret.c.req.slot >= genesis_slot
        /\ GenesisTime + (ret.c.req.slot - genesis_slot) * seconds_per_slot < U64) =>
            /\ ret.result.ok
            /\ ret.result.v.message.header.timestamp =
                    GenesisTime + (ret.c.req.slot - genesis_slot) * seconds_per_slot

\* C15 witness: in a build without overflow checks a call for the slot before
\* genesis_slot has returned a bid, slots_since_genesis having wrapped to
\* 2^64 - 1.
C15_WitnessWrapped ==
    /\ Fetched /\ ret.result.ok
    /\ ret.c.req.slot = genesis_slot - 1
    /\ ~ret.c.overflow_checks
    /\ ret.c.slots_since_genesis = U64 - 1

\* C15, a wrong timestamp: in a build without overflow checks a call for a
\* slot after genesis_slot has returned a bid whose timestamp is below
\* genesis_time, the multiplication having wrapped.
C15_WitnessWrongTimestamp ==
    /\ Fetched /\ ret.result.ok
    /\ ret.c.req.slot > genesis_slot
    /\ ret.result.v.message.header.timestamp < GenesisTime

\* C15, the other build: with overflow checks the call for the slot before
\* genesis_slot has panicked in the subtraction.
C15_WitnessPanic ==
    /\ Fetched
    /\ ret.c.req.slot = genesis_slot - 1
    /\ ret.result = Err(<<"panic", "attempt to subtract with overflow">>)

----------------------------------------------------------------------------
(* Claims about concurrent calls on the operation queue, checked under SpecDrain *)

Applied(t) == {tasks[t].applied[i] : i \in 1..Len(tasks[t].applied)}

\* C19: no operation is applied to the bids of two calls; while a call is
\* inside apply_operations the queue does not grow (no add_operation gets in
\* between two of its pops) and no other call pops; and a call that returns
\* from apply_operations without an error has applied to its one bid all the
\* operations that were queued when it took the lock, tail-most first, and
\* leaves the queue empty.
C19_AtomicDrain ==
    [][/\ \A t1, t2 \in Tasks : t1 # t2 => Applied(t1)' \cap Applied(t2)' = {}
       /\ \A t \in Tasks :
            /\ tasks[t].pc = "draining" =>
                    /\ Len(operations') <= Len(operations)
                    /\ \A t2 \in Tasks \ {t} : tasks'[t2] = tasks[t2]
            /\ (tasks'[t].pc = "done" /\ tasks'[t].result.ok) =>
                    tasks'[t].applied = Reversed(tasks'[t].found)
            /\ (tasks[t].pc = "draining" /\ tasks'[t].pc = "done"
                    /\ tasks'[t].result.ok) => operations' = <<>>
    ]_vars

\* C19 witness: both calls have returned bids; one found two operations
\* queued and applied both, an operation added after its drain was applied by
\* the other.
C19_Witness ==
    /\ \A t \in Tasks : tasks[t].pc = "done" /\ tasks[t].result.ok
    /\ Len(tasks["t1"].applied) = 2
    /\ Len(tasks["t2"].applied) = 1
    /\ Len(ret.added) = 3
    /\ operations = <<>>

====
